---- MODULE Spec2Model ----
(***************************************************************************)
(* The backend process supervisor (BackendManager) of the Unsubscriber     *)
(* desktop shell, as a state machine.  One action is one task of the       *)
(* event loop: a public call up to its first suspension point, a timer     *)
(* callback with the continuations it wakes, or a child-process event      *)
(* with every listener registered for it.                                  *)
(***************************************************************************)
EXTENDS Integers, Sequences, FiniteSets, TLC

\* ------------------------------------------------------------------ bounds
MaxProcs  == 2      \* spawn() calls that return a ChildProcess
MaxStops  == 2      \* stop() calls in progress at once
MaxProbes == 2      \* readiness probes of one start attempt
MaxLines  == 2      \* lines in one stdout chunk
MaxPort   == 2      \* announced ports are 0..MaxPort
MaxInFlight == 3    \* health checks of the monitor awaiting a response at once
MaxDialogs  == 1    \* critical dialogs open at once
MaxNow      == 1    \* Date.now() is 0..MaxNow

\* --------------------------------------------------------------- constants
\* APP_CONSTANTS.HEALTH_CHECK_FAILURE_THRESHOLD
HEALTH_CHECK_FAILURE_THRESHOLD == 3
\* APP_CONSTANTS.HEALTH_CHECK_INTERVAL_MS
HEALTH_CHECK_INTERVAL_MS == 5000
\* APP_CONSTANTS.HEALTH_CHECK_TIMEOUT_MS
HEALTH_CHECK_TIMEOUT_MS == 3000
\* APP_CONSTANTS.BACKEND_STARTUP_TIMEOUT_MS
BACKEND_STARTUP_TIMEOUT_MS == 30000
\* waitForPort: the period of its setInterval
PORT_POLL_MS == 100
\* waitForHealthy: the timeout of one axios.get
PROBE_TIMEOUT_MS == 2000
\* waitForHealthy: the sleep after a probe that threw
PROBE_RETRY_MS == 500

\* --------------------------------------------------------------- optionals
\* T | null is a sequence of length at most one.
None    == <<>>
Some(x) == <<x>>

\* ------------------------------------------------------------------ inputs
\* /PORT:(\d+)/ accepts any decimal, 0 included; a backend that keeps its
\* contract announces the port it has bound, which is not 0.
Ports      == 0..MaxPort
BoundPorts == 1..MaxPort
\* A stdout line is noise (None) or the announcement PORT:n (Some(n)); a chunk
\* is what one 'data' event delivers: one or more lines.
LinesOf(P)  == {None} \cup {Some(n) : n \in P}
ChunksOf(P) == UNION {[1..k -> LinesOf(P)] : k \in 1..MaxLines}
Chunks      == ChunksOf(Ports)

\* ---------------------------------------------------------- error messages
ErrPortTimeout   == "Backend did not announce port within timeout"
ErrHealthTimeout == "Backend did not become healthy within timeout"
ErrPortMissing   == "Cannot check health: port not available"
ErrSpawn         == "spawn failed"
NoError          == "null"

VARIABLES
    process,          \* BackendManager.process: the tracked ChildProcess, or null
    port,             \* BackendManager.port
    isRunning,        \* BackendManager.isRunning
    startupPromise,   \* BackendManager.startupPromise: a promise of _startInternal, or null
    procs,            \* every ChildProcess spawn() has returned, in spawn order
    pc,               \* where the in-flight _startInternal is suspended
    run,              \* the locals of the latest _startInternal that spawned
    promise,          \* the promise of the latest run of _startInternal
    lastCall,         \* the latest start() call: what it saw and what it did
    stops,            \* the stop() calls in progress: target, promise, force-kill timer
    lastEvent,        \* the last lifecycle event: "ready", the error of a failed start,
                      \* "crash" (the tracked process closed by itself) or "stopped"
    lastStop,         \* how the latest stop() call returned: "resolved" at the call,
                      \* or "pending" on the close of the tracked process
    hcIsRunning,      \* HealthCheckService.isRunning
    intervalId,       \* HealthCheckService.intervalId
    status,           \* HealthCheckService.status
    mainWindow,       \* HealthCheckService.mainWindow: "null", "open" or "destroyed"
    liveIntervals,    \* the setInterval timers of the monitor not yet cleared
    inFlight,         \* the checks of the monitor awaiting their axios response
    dialogs,          \* the critical dialogs shown and not yet acknowledged
    shown,            \* the critical dialogs shown since the latest start() of the monitor
    notified,         \* the latest health:status snapshot sent to the renderer
    now,              \* Date.now()
    lastOp,           \* the latest call on the monitor or check outcome applied to
                      \* it, and the isRunning and consecutiveFailures it found
    timed             \* one start() on the clock: where _startInternal stands, the
                      \* ms since the call, and when its backend announces the port

\* The fields of the HealthCheckService and of its environment, and the timed
\* run, which no step of the untimed supervisor touches.
hvars == <<hcIsRunning, intervalId, status, mainWindow, liveIntervals, inFlight,
           dialogs, shown, notified, now, lastOp, timed>>

vars == <<process, port, isRunning, startupPromise, procs, pc, run, promise,
          lastCall, stops, lastEvent, lastStop, hvars>>

\* ------------------------------------------------------------ pure helpers
\* BackendStatus
Status(r, po, pi, e) == [isRunning |-> r, port |-> po, pid |-> pi, error |-> e]

\* this.process?.pid || null: a process whose launch failed has no pid
pidOf(pr) ==
    IF pr = None \/ procs[pr[1]].state \in {"failing", "failed"}
    THEN None ELSE pr

getStatus == Status(isRunning, port, pidOf(process), NoError)

\* this.port ? `http://127.0.0.1:${this.port}` : null  (0 is falsy)
getBaseUrl == IF port # None /\ port[1] # 0 THEN Some(port[1]) ELSE None

\* output.match(/PORT:(\d+)/): the first announcement in the chunk, if any
RECURSIVE firstMatch(_, _)
firstMatch(chunk, i) ==
    IF i > Len(chunk) THEN None
    ELSE IF chunk[i] # None THEN chunk[i]
    ELSE firstMatch(chunk, i + 1)

portMatch(chunk) == firstMatch(chunk, 1)

\* The stdout handler's assignment to this.port for a chunk.
stdoutPort(old, chunk) ==
    IF portMatch(chunk) # None THEN portMatch(chunk) ELSE old

closeListener_M(p) == [isRunning |-> FALSE, port |-> port, process |-> None]

\* The fields after the 'close' listener registered by _startInternal.
closeListener(p) == [isRunning |-> FALSE, port |-> None, process |-> None]

\* The fields after the 'error' listener registered by _startInternal.
errorListener(p) == [isRunning |-> FALSE, port |-> None, process |-> process]

startUsesCache_M == FALSE

\* start(): hand out the cached promise instead of running _startInternal.
startUsesCache == startupPromise # None

\* _startInternal: the already-running shortcut.
alreadyRunning == isRunning

\* waitForHealthy: if (!this.port) throw
portUnavailable(po) == po = None \/ po[1] = 0

stopResolvedAtCall_M(pr) == FALSE

\* stop(): if (this.process) fails, so the call resolves at once.
stopResolvedAtCall(pr) == pr = None

\* stop()'s timer callback: the process that receives SIGKILL, if any.
forceKillTarget(s) == process

\* A ChildProcess after its 'close' event.
Closed == [state |-> "closed", said |-> None, sig |-> "none"]

\* ChildProcess.kill(sig) on pr: a signal reaches a live process only.
signal(pr, sig) ==
    IF pr = None \/ procs[pr[1]].state # "alive" THEN procs
    ELSE [procs EXCEPT ![pr[1]].sig = sig]

\* A stop() call in progress: the process it was called on, whether its
\* promise is still pending, and whether its force-kill timer is still armed.
\* A call whose promise is resolved and whose timer is gone leaves nothing.
Free == [target |-> None, pending |-> FALSE, armed |-> FALSE]

done(r) == IF r.pending \/ r.armed THEN r ELSE Free

freeSlots == {s \in DOMAIN stops : stops[s] = Free}

Min(S) == CHOOSE x \in S : \A y \in S : x <= y

\* No start() on the clock yet.
NoTimedRun == [at |-> "idle", t |-> 0, since |-> 0, announce |-> None,
               error |-> NoError]

\* ------------------------------------------------------------------- Init
\* The locals of a run of _startInternal past spawn(): the process it spawned,
\* the pid it captured, the port waitForPort() resolved with, the probes
\* waitForHealthy() has issued, whether the last one reported healthy, and
\* whether its own process has announced a port on stdout during the run.
NoRun == [proc |-> None, pid |-> None, port |-> None, probes |-> 0,
          healthy |-> FALSE, announced |-> FALSE]

Init ==
    /\ process = None
    /\ port = None
    /\ isRunning = FALSE
    /\ startupPromise = None
    /\ procs = <<>>
    /\ pc = "idle"
    /\ run = NoRun
    /\ promise = None
    /\ lastCall = None
    /\ stops = [s \in 1..MaxStops |-> Free]
    /\ lastEvent = "none"
    /\ lastStop = "none"
    /\ hcIsRunning = FALSE
    /\ intervalId = None
    /\ status = [isHealthy |-> TRUE, consecutiveFailures |-> 0,
                 lastCheck |-> None, error |-> None]
    /\ mainWindow = "null"
    /\ liveIntervals = 0
    /\ inFlight = 0
    /\ dialogs = 0
    /\ shown = 0
    /\ notified = None
    /\ now = 0
    /\ lastOp = None
    /\ timed = NoTimedRun

\* A promise of _startInternal: still pending, or settled with a status.
Pending     == [settled |-> FALSE, value |-> Status(FALSE, None, None, NoError)]
Settled(st) == [settled |-> TRUE, value |-> st]

\* A start() call: whether a start sequence was in flight when it was made,
\* and whether it ran _startInternal (ran = FALSE: it returned the cached
\* promise).  Either way the caller holds the latest promise.
newCall(ran) == Some([inFlight |-> pc # "idle", ran |-> ran])

\* The promise of the in-flight _startInternal settles with st; the finally
\* block clears startupPromise.
settle(st) ==
    /\ promise' = Some(Settled(st))
    /\ startupPromise' = None
    /\ pc' = "idle"
    /\ lastEvent' = IF st.isRunning THEN "ready" ELSE st.error

failed(msg) == Status(FALSE, None, None, msg)

\* ---------------------------------------------------------------- start()
\* start() while a promise is cached: the caller gets that promise.
startCached ==
    /\ startUsesCache
    /\ lastCall' = newCall(FALSE)
    /\ UNCHANGED <<process, port, isRunning, startupPromise, procs, pc, run,
                   promise, stops, lastEvent>>
    /\ UNCHANGED <<lastStop, hvars>>

\* start() -> _startInternal with isRunning set: it returns getStatus() before
\* the try block, and start() caches the settled promise.
startAlreadyRunning ==
    /\ ~startUsesCache
    /\ alreadyRunning
    /\ promise' = Some(Settled(getStatus))
    /\ lastCall' = newCall(TRUE)
    /\ startupPromise' = promise'
    /\ UNCHANGED <<process, port, isRunning, procs, pc, run, stops, lastEvent>>
    /\ UNCHANGED <<lastStop, hvars>>

\* start() -> _startInternal where spawn() throws: catch builds the failed
\* status, finally clears startupPromise, and then start() caches the promise.
startSpawnThrows ==
    /\ ~startUsesCache
    /\ ~alreadyRunning
    /\ promise' = Some(Settled(failed(ErrSpawn)))
    /\ lastCall' = newCall(TRUE)
    /\ startupPromise' = promise'
    /\ lastEvent' = ErrSpawn
    /\ UNCHANGED <<process, port, isRunning, procs, pc, run, stops>>
    /\ UNCHANGED <<lastStop, hvars>>

\* start() -> _startInternal where spawn() returns a ChildProcess: a live
\* process (launched = TRUE) or one whose launch failed and whose 'error'
\* event is still to come.  The listeners are registered and the run
\* suspends in waitForPort().
startSpawn(launched) ==
    /\ Len(procs) < MaxProcs
    /\ ~startUsesCache
    /\ ~alreadyRunning
    /\ procs' = Append(procs,
            [state |-> IF launched THEN "alive" ELSE "failing",
             said |-> None, sig |-> "none"])
    /\ process' = Some(Len(procs) + 1)
    /\ run' = [NoRun EXCEPT !.proc = Some(Len(procs) + 1),
                            !.pid = IF launched THEN Some(Len(procs) + 1) ELSE None]
    /\ promise' = Some(Pending)
    /\ lastCall' = newCall(TRUE)
    /\ startupPromise' = promise'
    /\ pc' = "waitPort"
    /\ UNCHANGED <<port, isRunning, stops, lastEvent>>
    /\ UNCHANGED <<lastStop, hvars>>

start ==
    \/ startCached
    \/ startAlreadyRunning
    \/ startSpawnThrows
    \/ \E launched \in BOOLEAN : startSpawn(launched)

\* ----------------------------------------------------------- waitForPort()
\* The 100 ms interval sees a port: waitForPort resolves, _startInternal sets
\* isRunning and enters waitForHealthy(), which throws or issues a probe.
waitForPortTick ==
    /\ pc = "waitPort"
    /\ port # None
    /\ isRunning' = TRUE
    /\ run' = [run EXCEPT !.port = port,
                          !.probes = IF portUnavailable(port) THEN 0 ELSE 1]
    /\ IF portUnavailable(port)
       THEN settle(failed(ErrPortMissing))
       ELSE /\ pc' = "probing"
            /\ UNCHANGED <<startupPromise, promise, lastEvent>>
    /\ UNCHANGED <<process, port, procs, lastCall, stops>>
    /\ UNCHANGED <<lastStop, hvars>>

waitForPortTimeout_M ==
    /\ pc = "waitPort"
    /\ process # None
    /\ settle(failed(ErrPortTimeout))
    /\ UNCHANGED <<process, port, isRunning, procs, run, lastCall, stops>>
    /\ UNCHANGED <<lastStop, hvars>>

\* The startup timeout fires first: waitForPort rejects.
waitForPortTimeout ==
    /\ pc = "waitPort"
    /\ settle(failed(ErrPortTimeout))
    /\ UNCHANGED <<process, port, isRunning, procs, run, lastCall, stops>>
    /\ UNCHANGED <<lastStop, hvars>>

\* --------------------------------------------------------- waitForHealthy()
\* The head of the while loop: out of time, or one more probe.
loopHead(elapsed) ==
    IF elapsed
    THEN settle(failed(ErrHealthTimeout)) /\ UNCHANGED run
    ELSE /\ run.probes < MaxProbes
         /\ run' = [run EXCEPT !.probes = @ + 1]
         /\ pc' = "probing"
         /\ UNCHANGED <<startupPromise, promise, lastEvent>>

\* axios.get returned a body whose status is 'healthy'.
probeHealthy ==
    /\ pc = "probing"
    /\ settle(Status(TRUE, run.port, run.pid, NoError))
    /\ run' = [run EXCEPT !.healthy = TRUE]
    /\ UNCHANGED <<process, port, isRunning, procs, lastCall, stops>>
    /\ UNCHANGED <<lastStop, hvars>>

\* axios.get returned another body: back to the head of the loop at once.
probeOtherBody(elapsed) ==
    /\ pc = "probing"
    /\ loopHead(elapsed)
    /\ UNCHANGED <<process, port, isRunning, procs, lastCall, stops>>
    /\ UNCHANGED <<lastStop, hvars>>

\* axios.get threw (transport error, timeout, non-2xx): sleep 500 ms.
probeThrows ==
    /\ pc = "probing"
    /\ pc' = "probeWait"
    /\ UNCHANGED <<process, port, isRunning, startupPromise, procs, run, promise,
                   lastCall, stops, lastEvent>>
    /\ UNCHANGED <<lastStop, hvars>>

\* The 500 ms sleep ends: back to the head of the loop.
probeRetry(elapsed) ==
    /\ pc = "probeWait"
    /\ loopHead(elapsed)
    /\ UNCHANGED <<process, port, isRunning, procs, lastCall, stops>>
    /\ UNCHANGED <<lastStop, hvars>>

\* ------------------------------------------------------ child-process events
\* stdout 'data' of process p: its listener runs whoever is tracked.
onStdoutData(p, chunk) ==
    /\ procs[p].state = "alive"
    /\ port' = stdoutPort(port, chunk)
    /\ procs' = [procs EXCEPT ![p].said = stdoutPort(@, chunk)]
    /\ run' = IF pc # "idle" /\ run.proc = Some(p) /\ portMatch(chunk) # None
              THEN [run EXCEPT !.announced = TRUE] ELSE run
    /\ UNCHANGED <<process, isRunning, startupPromise, pc, promise, lastCall,
                   stops, lastEvent>>
    /\ UNCHANGED <<lastStop, hvars>>

\* 'error' of process p (its launch failed).
onError(p) ==
    /\ procs[p].state = "failing"
    /\ procs' = [procs EXCEPT ![p].state = "failed"]
    /\ isRunning' = errorListener(p).isRunning
    /\ port' = errorListener(p).port
    /\ process' = errorListener(p).process
    /\ UNCHANGED <<startupPromise, pc, run, promise, lastCall, stops, lastEvent>>
    /\ UNCHANGED <<lastStop, hvars>>

\* 'close' of process p: the listener of _startInternal, then the once-listener
\* of every stop() still waiting for p, which clears the same fields and
\* resolves that stop().
onClose(p) ==
    /\ procs[p].state \in {"alive", "failed"}
    /\ procs' = [procs EXCEPT ![p] = Closed]
    /\ LET waiting == {s \in DOMAIN stops :
                          stops[s].target = Some(p) /\ stops[s].pending}
       IN  /\ stops' = [s \in DOMAIN stops |->
                          IF s \in waiting
                          THEN done([stops[s] EXCEPT !.pending = FALSE])
                          ELSE stops[s]]
           /\ isRunning' = IF waiting # {} THEN FALSE ELSE closeListener(p).isRunning
           /\ port' = IF waiting # {} THEN None ELSE closeListener(p).port
           /\ process' = IF waiting # {} THEN None ELSE closeListener(p).process
           /\ lastEvent' = IF waiting # {} THEN "stopped"
                           ELSE IF process = Some(p) THEN "crash"
                           ELSE lastEvent
    /\ UNCHANGED <<startupPromise, pc, run, promise, lastCall>>
    /\ UNCHANGED <<lastStop, hvars>>

\* ----------------------------------------------------------------- stop()
\* stop(): with no tracked process it resolves at once; otherwise it registers
\* the once-listener, sends SIGTERM and arms the 5 s force-kill timer.
stop ==
    /\ IF stopResolvedAtCall(process)
       THEN UNCHANGED stops
       ELSE /\ freeSlots # {}
            /\ stops' = [stops EXCEPT ![Min(freeSlots)] =
                            [target |-> process, pending |-> TRUE, armed |-> TRUE]]
    /\ procs' = signal(process, "SIGTERM")
    /\ UNCHANGED <<process, port, isRunning, startupPromise, pc, run, promise,
                   lastCall, lastEvent>>
    /\ lastStop' = IF stopResolvedAtCall(process) THEN "resolved" ELSE "pending"
    /\ UNCHANGED hvars

\* The force-kill timer of stop() number s fires: SIGKILL to this.process.
forceKillTimer(s) ==
    /\ stops[s].armed
    /\ stops' = [stops EXCEPT ![s] = done([@ EXCEPT !.armed = FALSE])]
    /\ procs' = signal(forceKillTarget(s), "SIGKILL")
    /\ UNCHANGED <<process, port, isRunning, startupPromise, pc, run, promise,
                   lastCall, lastEvent>>
    /\ UNCHANGED <<lastStop, hvars>>

\* ------------------------------------------------------------------- Next
NextWith(C) ==
    \/ start
    \/ waitForPortTick
    \/ waitForPortTimeout
    \/ probeHealthy
    \/ \E elapsed \in BOOLEAN : probeOtherBody(elapsed)
    \/ probeThrows
    \/ \E elapsed \in BOOLEAN : probeRetry(elapsed)
    \/ \E p \in DOMAIN procs, chunk \in C : onStdoutData(p, chunk)
    \/ \E p \in DOMAIN procs : onError(p)
    \/ \E p \in DOMAIN procs : onClose(p)
    \/ stop
    \/ \E s \in DOMAIN stops : forceKillTimer(s)

\* Every output the stdout handler accepts.
Next == NextWith(Chunks)

Spec == Init /\ [][Next]_vars

\* The behaviours in which every announced port is a bound port.
BoundPortsNext == NextWith(ChunksOf(BoundPorts))

BoundPortsSpec == Init /\ [][BoundPortsNext]_vars

\* The supervisor whose timers fire and whose probes return or time out: the
\* timeout of waitForPort(), the axios.get of waitForHealthy() with its own
\* timeout, and the sleep between two probes.
probeReturns ==
    \/ probeHealthy
    \/ \E elapsed \in BOOLEAN : probeOtherBody(elapsed)
    \/ probeThrows

FairSpec ==
    /\ BoundPortsSpec
    /\ WF_vars(waitForPortTimeout)
    /\ WF_vars(probeReturns)
    /\ WF_vars(\E elapsed \in BOOLEAN : probeRetry(elapsed))

\* ========================================================== Health Monitor
\* The HealthCheckService, with the supervisor reduced to what the monitor
\* reads of it: getBaseUrl(), that is, the port.
ErrNoUrl     == "Backend URL not available"
ErrUnhealthy == "Backend reported unhealthy status"
ErrRequest   == "Health check request failed"

\* The fields of the BackendManager the monitor never reads, and the timed run.
bvars == <<process, isRunning, startupPromise, procs, pc, run, promise,
           lastCall, stops, lastEvent, lastStop, timed>>

\* The monitor as a value: its fields, its timers and pending callbacks, and
\* what it has sent.  The methods below map a monitor to the monitor they
\* leave, so that a method calling another is the composition of the two.
Monitor ==
    [hcIsRunning |-> hcIsRunning, intervalId |-> intervalId, status |-> status,
     liveIntervals |-> liveIntervals, inFlight |-> inFlight,
     dialogs |-> dialogs, shown |-> shown, notified |-> notified]

becomes(m) ==
    /\ hcIsRunning' = m.hcIsRunning
    /\ intervalId' = m.intervalId
    /\ status' = m.status
    /\ liveIntervals' = m.liveIntervals
    /\ inFlight' = m.inFlight
    /\ dialogs' = m.dialogs
    /\ shown' = m.shown
    /\ notified' = m.notified

\* HealthCheckService.getStatus(): a copy of the status record
hcGetStatus(m) == m.status

\* HealthCheckService.isActive()
isActive(m) == m.hcIsRunning

notifyRenderer_M(m) == m

\* notifyRenderer(): webContents.send('health:status', getStatus())
notifyRenderer(m) ==
    IF mainWindow = "open" THEN [m EXCEPT !.notified = Some(hcGetStatus(m))]
    ELSE m

hcStop_KeepsTimer_M(m) ==
    IF ~m.hcIsRunning THEN m ELSE [m EXCEPT !.hcIsRunning = FALSE]

hcStop_M(m) ==
    IF ~m.hcIsRunning THEN m
    ELSE [m EXCEPT !.liveIntervals = IF m.intervalId # None THEN @ - 1 ELSE @,
                   !.intervalId = None,
                   !.hcIsRunning = FALSE,
                   !.status.consecutiveFailures = 0]

\* HealthCheckService.stop()
hcStop(m) ==
    IF ~m.hcIsRunning THEN m
    ELSE [m EXCEPT !.liveIntervals = IF m.intervalId # None THEN @ - 1 ELSE @,
                   !.intervalId = None,
                   !.hcIsRunning = FALSE]

handleCriticalFailure_M(m) == m

\* handleCriticalFailure(): stop(), then the dialog if there is a window
handleCriticalFailure(m) ==
    IF mainWindow = "open"
    THEN [hcStop(m) EXCEPT !.dialogs = @ + 1, !.shown = @ + 1]
    ELSE hcStop(m)

handleFailure_M(m, error) ==
    notifyRenderer([m EXCEPT !.status.consecutiveFailures = @ + 1,
                             !.status.lastCheck = Some(now),
                             !.status.error = Some(error)])

\* handleFailure(error)
handleFailure(m, error) ==
    LET counted == [m EXCEPT !.status.consecutiveFailures = @ + 1,
                             !.status.lastCheck = Some(now),
                             !.status.error = Some(error)]
    IN  notifyRenderer(
            IF counted.status.consecutiveFailures >= HEALTH_CHECK_FAILURE_THRESHOLD
            THEN handleCriticalFailure([counted EXCEPT !.status.isHealthy = FALSE])
            ELSE counted)

handleSuccess_M(m) ==
    notifyRenderer([m EXCEPT !.status.isHealthy = TRUE,
                             !.status.lastCheck = Some(now),
                             !.status.error = None])

\* handleSuccess()
handleSuccess(m) ==
    notifyRenderer([m EXCEPT !.status = [isHealthy |-> TRUE,
                                         consecutiveFailures |-> 0,
                                         lastCheck |-> Some(now),
                                         error |-> None]])

performCheck_M(m) == m

performCheck_SkipsNoUrl_M(m) ==
    IF getBaseUrl = None THEN m ELSE [m EXCEPT !.inFlight = @ + 1]

performCheck_Requests_M(m) == [m EXCEPT !.inFlight = @ + 1]

\* performCheck() up to its await: a failure at once when there is no base
\* URL, a request in flight otherwise.
performCheck(m) ==
    IF getBaseUrl = None THEN handleFailure(m, ErrNoUrl)
    ELSE [m EXCEPT !.inFlight = @ + 1]

hcStart_M(m) ==
    [performCheck([m EXCEPT !.hcIsRunning = TRUE,
                            !.status.consecutiveFailures = 0,
                            !.status.isHealthy = TRUE,
                            !.shown = 0])
        EXCEPT !.intervalId = Some(1), !.liveIntervals = @ + 1]

\* HealthCheckService.start()
hcStart(m) ==
    IF m.hcIsRunning THEN m
    ELSE LET reset == [m EXCEPT !.hcIsRunning = TRUE,
                                !.status.consecutiveFailures = 0,
                                !.status.isHealthy = TRUE,
                                !.shown = 0]
         IN  [performCheck(reset) EXCEPT !.intervalId = Some(1),
                                         !.liveIntervals = @ + 1]

\* A call of performCheck() stays within the bounds.
mayCheck == dialogs < MaxDialogs /\ (getBaseUrl = None \/ inFlight < MaxInFlight)

\* A call on the monitor or a check outcome, and what it found.
call(op) ==
    Some([op |-> op, wasRunning |-> hcIsRunning,
          failures |-> status.consecutiveFailures])

\* healthCheckService.start()
monitorStart ==
    /\ hcIsRunning \/ mayCheck
    /\ becomes(hcStart(Monitor))
    /\ lastOp' = call("start")
    /\ UNCHANGED <<bvars, port, mainWindow, now>>

\* healthCheckService.stop()
monitorStop ==
    /\ becomes(hcStop(Monitor))
    /\ lastOp' = call("stop")
    /\ UNCHANGED <<bvars, port, mainWindow, now>>

\* The setInterval callback of a live interval.
intervalTick ==
    /\ liveIntervals > 0
    /\ mayCheck
    /\ becomes(performCheck(Monitor))
    /\ lastOp' = IF getBaseUrl = None THEN call("failure") ELSE lastOp
    /\ UNCHANGED <<bvars, port, mainWindow, now>>

\* A request in flight returns 200 with status 'healthy'.
checkHealthy ==
    /\ inFlight > 0
    /\ becomes(handleSuccess([Monitor EXCEPT !.inFlight = @ - 1]))
    /\ lastOp' = call("success")
    /\ UNCHANGED <<bvars, port, mainWindow, now>>

checkUnhealthy_M ==
    /\ inFlight > 0
    /\ dialogs < MaxDialogs
    /\ becomes(handleSuccess([Monitor EXCEPT !.inFlight = @ - 1]))
    /\ lastOp' = call("failure")
    /\ UNCHANGED <<bvars, port, mainWindow, now>>

\* A request in flight returns 200 with another body.
checkUnhealthy ==
    /\ inFlight > 0
    /\ dialogs < MaxDialogs
    /\ becomes(handleFailure([Monitor EXCEPT !.inFlight = @ - 1], ErrUnhealthy))
    /\ lastOp' = call("failure")
    /\ UNCHANGED <<bvars, port, mainWindow, now>>

\* A request in flight throws: transport error, timeout, or a status other
\* than 200.
checkThrows ==
    /\ inFlight > 0
    /\ dialogs < MaxDialogs
    /\ becomes(handleFailure([Monitor EXCEPT !.inFlight = @ - 1], ErrRequest))
    /\ lastOp' = call("failure")
    /\ UNCHANGED <<bvars, port, mainWindow, now>>

\* The user acknowledges a critical dialog: the then() callback notifies.
dialogAcknowledged ==
    /\ dialogs > 0
    /\ becomes(notifyRenderer([Monitor EXCEPT !.dialogs = @ - 1]))
    /\ UNCHANGED <<bvars, port, mainWindow, now, lastOp>>

\* setMainWindow(window)
setMainWindow ==
    /\ mainWindow # "open"
    /\ mainWindow' = "open"
    /\ UNCHANGED <<bvars, port, hcIsRunning, intervalId, status, liveIntervals,
                   inFlight, dialogs, shown, notified, now, lastOp>>

\* The window is destroyed.
windowDestroyed ==
    /\ mainWindow = "open"
    /\ mainWindow' = "destroyed"
    /\ UNCHANGED <<bvars, port, hcIsRunning, intervalId, status, liveIntervals,
                   inFlight, dialogs, shown, notified, now, lastOp>>

\* The supervisor's port changes: an announcement, or a close that clears it.
backendPort(po) ==
    /\ port # po
    /\ port' = po
    /\ UNCHANGED <<bvars, hvars>>

\* Time passes.
clockTick ==
    /\ now < MaxNow
    /\ now' = now + 1
    /\ UNCHANGED <<bvars, port, hcIsRunning, intervalId, status, mainWindow,
                   liveIntervals, inFlight, dialogs, shown, notified, lastOp>>

HealthNext ==
    \/ monitorStart
    \/ monitorStop
    \/ intervalTick
    \/ checkHealthy
    \/ checkUnhealthy
    \/ checkThrows
    \/ dialogAcknowledged
    \/ setMainWindow
    \/ windowDestroyed
    \/ \E po \in LinesOf(Ports) : backendPort(po)
    \/ clockTick

HealthSpec == Init /\ [][HealthNext]_vars

\* The monitor whose interval timer fires: a live setInterval keeps running
\* its callback.
FairHealthSpec == HealthSpec /\ WF_vars(intervalTick)

\* The monitor with requests that keep their timeout.  A request is settled
\* within HEALTH_CHECK_TIMEOUT_MS of being issued, and the callback of the
\* live interval runs HEALTH_CHECK_INTERVAL_MS after the start() that set it
\* or after its previous run: when the timeout is the shorter one, every
\* request issued up to the previous run has been settled by then.
timedTick ==
    /\ HEALTH_CHECK_TIMEOUT_MS < HEALTH_CHECK_INTERVAL_MS => inFlight = 0
    /\ intervalTick

TimedHealthNext ==
    \/ monitorStart
    \/ monitorStop
    \/ timedTick
    \/ checkHealthy
    \/ checkUnhealthy
    \/ checkThrows
    \/ dialogAcknowledged
    \/ setMainWindow
    \/ windowDestroyed
    \/ \E po \in LinesOf(Ports) : backendPort(po)
    \/ clockTick

TimedHealthSpec == Init /\ [][TimedHealthNext]_vars

\* ============================================================ UnsubscriberApp
\* initialize() of main.ts: runStartupChecks(), startBackend(), then
\* createWindow(), createTray(), startHealthCheck(); its catch block shows the
\* error and calls app.quit(), whose 'before-quit' handler runs shutdown().
\* initialize() is called once (app.whenReady), and it is the only caller of
\* backendManager.start() and healthCheckService.start().  Where initialize()
\* stands follows from the calls it has made.

statusOk_M(st) == st.isRunning \/ st.error # NoError

\* startBackend(): the test on the status start() resolved with.
statusOk(st) == ~(~st.isRunning \/ st.error # NoError)

\* `await this.backendManager.start()` has its value and the rest of
\* initialize() has not run yet.
appResumes ==
    /\ lastCall # None
    /\ promise # None /\ promise[1].settled
    /\ lastOp = None

\* shutdown() has stopped the monitor and has not called backendManager.stop().
appQuits ==
    /\ lastOp # None /\ lastOp[1].op = "stop"
    /\ lastStop = "none"

\* runStartupChecks() passes and startBackend() calls backendManager.start().
appStartBackend ==
    /\ lastCall = None /\ lastOp = None
    /\ start

\* runStartupChecks() throws: the catch block quits, and shutdown() begins.
appChecksFail ==
    /\ lastCall = None /\ lastOp = None
    /\ monitorStop

\* startBackend() returns; createWindow() hands the window to the monitor.
appCreateWindow ==
    /\ appResumes
    /\ statusOk(promise[1].value)
    /\ setMainWindow

\* startHealthCheck()
appStartHealthCheck ==
    /\ appResumes
    /\ statusOk(promise[1].value)
    /\ mainWindow = "open"
    /\ monitorStart

\* startBackend() throws: the catch block quits, and shutdown() begins.
appBackendFailed ==
    /\ appResumes
    /\ ~statusOk(promise[1].value)
    /\ monitorStop

\* shutdown(): await this.backendManager.stop()
appStopBackend ==
    /\ appQuits
    /\ stop

\* A timer, a response or a process event of the supervisor, taken when the
\* application has no synchronous code left to run.
appBackendEvent ==
    /\ ~appResumes
    /\ ~appQuits
    /\ \/ waitForPortTick
       \/ waitForPortTimeout
       \/ probeHealthy
       \/ \E elapsed \in BOOLEAN : probeOtherBody(elapsed)
       \/ probeThrows
       \/ \E elapsed \in BOOLEAN : probeRetry(elapsed)
       \/ \E p \in DOMAIN procs, chunk \in ChunksOf(BoundPorts) : onStdoutData(p, chunk)
       \/ \E p \in DOMAIN procs : onError(p)
       \/ \E p \in DOMAIN procs : onClose(p)
       \/ \E s \in DOMAIN stops : forceKillTimer(s)

AppNext ==
    \/ appStartBackend
    \/ appChecksFail
    \/ appCreateWindow
    \/ appStartHealthCheck
    \/ appBackendFailed
    \/ appStopBackend
    \/ appBackendEvent

AppSpec == Init /\ [][AppNext]_vars

\* ======================================================= start() on the clock
\* One start() with its waits as the code times them: waitForPort() polls
\* this.port every PORT_POLL_MS under a timeout of BACKEND_STARTUP_TIMEOUT_MS,
\* and waitForHealthy() loops while Date.now() - startTime is below
\* BACKEND_STARTUP_TIMEOUT_MS, startTime being taken when it is entered; a
\* probe lasts at most PROBE_TIMEOUT_MS and a probe that threw is followed by
\* a sleep of PROBE_RETRY_MS.  Times are ms since the start() call.

\* When the backend may announce its port (None: never).
AnnounceTimes ==
    {None} \cup {Some(k * PORT_POLL_MS) :
                     k \in 0..(BACKEND_STARTUP_TIMEOUT_MS \div PORT_POLL_MS)}

\* How long a probe may take to return or throw.
ProbeTimes ==
    {k * PROBE_RETRY_MS : k \in 1..(PROBE_TIMEOUT_MS \div PROBE_RETRY_MS)}

\* The first run of the polling interval that finds a port announced at a.
firstPoll(a) ==
    IF a <= PORT_POLL_MS THEN PORT_POLL_MS
    ELSE ((a + PORT_POLL_MS - 1) \div PORT_POLL_MS) * PORT_POLL_MS

\* Everything but the timed run.
untimed == <<process, port, isRunning, startupPromise, procs, pc, run, promise,
             lastCall, stops, lastEvent, lastStop, hcIsRunning, intervalId,
             status, mainWindow, liveIntervals, inFlight, dialogs, shown,
             notified, now, lastOp>>

timedSettle(at, error) == [timed EXCEPT !.at = "settled", !.t = at, !.error = error]

\* The head of the while loop of waitForHealthy() at time at.
timedLoopHead(at) ==
    IF at - timed.since < BACKEND_STARTUP_TIMEOUT_MS
    THEN [timed EXCEPT !.at = "probing", !.t = at]
    ELSE timedSettle(at, ErrHealthTimeout)

\* start() with a backend that announces its port at a: spawn, listeners,
\* waitForPort().
timedStart(a) ==
    /\ timed.at = "idle"
    /\ timed' = [timed EXCEPT !.at = "waitPort", !.announce = a]
    /\ UNCHANGED untimed

\* The polling interval finds the port before the timeout: waitForHealthy()
\* takes its startTime and issues the first probe.
timedPortSeen ==
    /\ timed.at = "waitPort"
    /\ timed.announce # None
    /\ firstPoll(timed.announce[1]) < BACKEND_STARTUP_TIMEOUT_MS
    /\ timed' = [timed EXCEPT !.at = "probing",
                              !.t = firstPoll(timed.announce[1]),
                              !.since = firstPoll(timed.announce[1])]
    /\ UNCHANGED untimed

\* The timeout of waitForPort() fires first.
timedPortTimeout ==
    /\ timed.at = "waitPort"
    /\ IF timed.announce = None THEN TRUE
       ELSE firstPoll(timed.announce[1]) >= BACKEND_STARTUP_TIMEOUT_MS
    /\ timed' = timedSettle(BACKEND_STARTUP_TIMEOUT_MS, ErrPortTimeout)
    /\ UNCHANGED untimed

\* The probe returns 'healthy' after d ms.
timedProbeHealthy(d) ==
    /\ timed.at = "probing"
    /\ timed' = timedSettle(timed.t + d, NoError)
    /\ UNCHANGED untimed

\* The probe returns another body after d ms.
timedProbeOtherBody(d) ==
    /\ timed.at = "probing"
    /\ timed' = timedLoopHead(timed.t + d)
    /\ UNCHANGED untimed

\* The probe throws after d ms, and the sleep begins.
timedProbeThrows(d) ==
    /\ timed.at = "probing"
    /\ timed' = [timed EXCEPT !.at = "probeWait", !.t = @ + d]
    /\ UNCHANGED untimed

\* The sleep ends.
timedProbeRetry ==
    /\ timed.at = "probeWait"
    /\ timed' = timedLoopHead(timed.t + PROBE_RETRY_MS)
    /\ UNCHANGED untimed

TimedStartNext ==
    \/ \E a \in AnnounceTimes : timedStart(a)
    \/ timedPortSeen
    \/ timedPortTimeout
    \/ \E d \in ProbeTimes : timedProbeHealthy(d)
    \/ \E d \in ProbeTimes : timedProbeOtherBody(d)
    \/ \E d \in ProbeTimes : timedProbeThrows(d)
    \/ timedProbeRetry

TimedStartSpec == Init /\ [][TimedStartNext]_vars

\* =================================================================== claims
\* A step in which the in-flight _startInternal settles its promise.
settles == pc # "idle" /\ pc' = "idle"

\* C1: every start() call made while a start sequence is in flight returns the
\* promise of that sequence without running _startInternal, so the sequence
\* spawns one process and all its callers resolve to the one value its promise
\* settles with.
C1_IdempotentStart ==
    /\ pc # "idle" => startupPromise = promise /\ promise = Some(Pending)
    /\ lastCall # None /\ lastCall[1].inFlight => ~lastCall[1].ran

\* C1 witness: a start() call was made during a start sequence, and the promise
\* it shares with the first caller has settled Ready.
C1_Witness ==
    /\ lastCall # None /\ lastCall[1].inFlight /\ ~lastCall[1].ran
    /\ Len(procs) = 1
    /\ pc = "idle" /\ promise[1].settled /\ promise[1].value.isRunning

\* C2 (as claimed): a start() call made with no start in flight after a start
\* attempt that timed out, a crash or a resolved stop() runs a fresh startup
\* sequence, i.e. reaches spawn().  Stated for the histories in which no
\* spawn() has thrown.
C2_RestartAfterFailure ==
    [][(start /\ pc = "idle"
              /\ promise # Some(Settled(failed(ErrSpawn)))
              /\ lastEvent \in {ErrPortTimeout, ErrHealthTimeout, "crash", "stopped"})
        => (startSpawnThrows \/ \E launched \in BOOLEAN : startSpawn(launched))]_vars

\* C3 (as claimed): a start() call made while the backend is running after a
\* successful start, with no start in flight, spawns nothing and its promise
\* carries the status getStatus() reports at the call.
C3_AlreadyRunningReturnsCurrent ==
    [][(start /\ pc = "idle" /\ isRunning /\ lastEvent = "ready")
        => (procs' = procs /\ promise' = Some(Settled(getStatus)))]_vars

\* C4 (as claimed): the first announcement of a process sets the port, and a
\* later announcement of the same process leaves it unchanged.
C4_FirstAnnouncementWins ==
    [][\A p \in DOMAIN procs, chunk \in Chunks :
        (onStdoutData(p, chunk) /\ portMatch(chunk) # None)
            => IF procs[p].said = None THEN port' = portMatch(chunk)
               ELSE port' = port]_vars

\* C5 (as claimed): a start attempt whose own process has announced no port
\* settles with the startup-timeout failure and has issued no readiness probe.
C5_NoPortMeansStartupTimeout ==
    [][(settles /\ ~run.announced)
        => (promise' = Some(Settled(failed(ErrPortTimeout))) /\ run'.probes = 0)]_vars

\* C6 (as claimed): a start attempt settles Ready only with a known port and a
\* healthy probe; with a known port and no healthy probe it settles with the
\* health-check-timeout failure; a failed probe alone never settles it.
C6_ReadyOnlyAfterHealthyProbe ==
    [][/\ settles =>
            /\ promise'[1].value.isRunning => (run'.port # None /\ run'.healthy)
            /\ (run'.port # None /\ ~run'.healthy)
                   => promise' = Some(Settled(failed(ErrHealthTimeout)))
       /\ probeThrows => pc' # "idle"]_vars

\* C7: when the tracked process closes while isRunning is set, getStatus()
\* reports isRunning = false and port = null and getBaseUrl() returns null in
\* the state right after, whether or not a stop() was waiting for it.
C7_CrashClearsState ==
    [][\A p \in DOMAIN procs :
        (onClose(p) /\ process = Some(p) /\ isRunning)
            => (~getStatus'.isRunning /\ getStatus'.port = None
                /\ getBaseUrl' = None)]_vars

\* C7 witness: the one process ever spawned became Ready and then closed with
\* no stop() ever called on it.
C7_Witness ==
    /\ Len(procs) = 1 /\ procs[1] = Closed
    /\ lastEvent = "crash"
    /\ promise[1].settled /\ promise[1].value.isRunning
    /\ ~isRunning /\ port = None

\* C8 (as claimed): a non-null port is the port announced by the tracked
\* process, and that process has not exited.
C8_PortBelongsToTrackedProcess ==
    port # None =>
        /\ process # None
        /\ procs[process[1]].state = "alive"
        /\ procs[process[1]].said = port

\* C9 (as claimed): stop() sends SIGTERM to the tracked process; when its grace
\* timer fires and that process is still alive, SIGKILL goes to that process;
\* the close of that process resolves the stop().
C9_GracefulThenForced ==
    [][/\ (stop /\ process # None /\ procs[process[1]].state = "alive")
            => procs'[process[1]].sig = "SIGTERM"
       /\ \A s \in DOMAIN stops :
            (forceKillTimer(s) /\ procs[stops[s].target[1]].state = "alive")
                => procs'[stops[s].target[1]].sig = "SIGKILL"
       /\ \A p \in DOMAIN procs : onClose(p) =>
            \A s \in DOMAIN stops :
                stops[s].target = Some(p) => ~stops'[s].pending]_vars

\* A step in which the stop() call in slot s resolves by the close of its
\* target.
stopResolves(s) == stops[s].pending /\ ~stops'[s].pending

\* C10 (as claimed): a stop() called on a process resolves only in a step in
\* which that process has closed, leaving isRunning = false, port = null and
\* no tracked process (pid = null); and in every state in which a stop() call
\* resolves at the call, the supervisor holds those same values.
C10_StopResolvesCleared ==
    /\ [][\A s \in DOMAIN stops : stopResolves(s) =>
            /\ procs'[stops[s].target[1]].state = "closed"
            /\ ~isRunning' /\ port' = None /\ process' = None
            /\ getStatus'.pid = None]_vars
    /\ [](stopResolvedAtCall(process) =>
            /\ ~isRunning /\ port = None
            /\ getStatus.pid = None)

\* C11: a stop() call made while no process is tracked sends no signal, arms
\* no force-kill timer, registers nothing, leaves isRunning, port and process
\* as they were, and resolves at the call.
C11_StopWithoutProcessIsNoOp ==
    [][(stop /\ process = None) =>
            /\ procs' = procs
            /\ stops' = stops
            /\ UNCHANGED <<isRunning, port, process>>
            /\ lastStop' = "resolved"]_vars

\* C11 witness: the only process ever spawned has closed, and the stop() call
\* made after that resolved at the call.
C11_Witness ==
    /\ lastStop = "resolved"
    /\ Len(procs) = 1 /\ procs[1] = Closed
    /\ process = None /\ stops = [s \in 1..MaxStops |-> Free]

\* A start() call made now would run a fresh startup sequence.
usable == ~startUsesCache /\ ~alreadyRunning

\* C12 (as claimed): a start attempt that ends without Ready settles its promise
\* with a status that has isRunning = false and an error, and leaves the
\* supervisor usable: the next start() runs a startup sequence.
C12_FailuresAreStatuses ==
    [][(settles /\ ~promise'[1].value.isRunning) =>
            /\ promise'[1].settled
            /\ promise'[1].value.error # NoError
            /\ usable']_vars

\* C13 (as claimed): a failed start attempt reports its cause: the spawn
\* failure when its process could not be launched and the 'error' event has
\* been delivered, the startup timeout when its launched process announced no
\* port, the health-check timeout when its process announced a port.
C13_FailureTaxonomy ==
    [][(settles /\ ~promise'[1].value.isRunning) =>
        LET error    == promise'[1].value.error
            launched == run.pid # None
        IN  /\ (~launched /\ procs[run.proc[1]].state # "failing")
                    => error = ErrSpawn
            /\ (launched /\ ~run.announced) => error = ErrPortTimeout
            /\ (launched /\ run.announced) => error = ErrHealthTimeout]_vars

\* C14 (as claimed): getBaseUrl() is the URL of the port exactly when a port
\* is known, whatever its value, and null otherwise.
C14_BaseUrlIffPortKnown ==
    getBaseUrl = IF port # None THEN Some(port[1]) ELSE None

\* A step of the running monitor in which a check outcome is applied as a
\* failure.
failureApplied ==
    /\ hcIsRunning
    /\ checkUnhealthy \/ checkThrows \/ (intervalTick /\ getBaseUrl = None)

\* C15: while the monitor runs, a failure that leaves consecutiveFailures below
\* the threshold of 3 leaves isHealthy and the schedule as they were; the
\* failure that brings it to 3 sets isHealthy to false and, in the same step,
\* clears the interval and isRunning; and no interval is live while the count
\* is at the threshold, so that no further check is begun.
C15_ThirdFailureIsCritical ==
    /\ [][failureApplied =>
            IF status'.consecutiveFailures < HEALTH_CHECK_FAILURE_THRESHOLD
            THEN /\ status'.isHealthy = status.isHealthy
                 /\ hcIsRunning' /\ intervalId' = intervalId
                 /\ liveIntervals' = liveIntervals
            ELSE /\ status.isHealthy /\ ~status'.isHealthy
                 /\ status'.consecutiveFailures = HEALTH_CHECK_FAILURE_THRESHOLD
                 /\ ~hcIsRunning' /\ intervalId' = None
                 /\ liveIntervals' = 0]_vars
    /\ [](status.consecutiveFailures >= HEALTH_CHECK_FAILURE_THRESHOLD
            => liveIntervals = 0)

\* C15 witness: the third consecutive failure has just been applied to the
\* running monitor, which is now unhealthy and unscheduled.
C15_Witness ==
    /\ lastOp = Some([op |-> "failure", wasRunning |-> TRUE, failures |-> 2])
    /\ status.consecutiveFailures = 3 /\ ~status.isHealthy
    /\ ~hcIsRunning /\ intervalId = None /\ liveIntervals = 0

\* C16: a healthy response applied while consecutiveFailures is below the
\* threshold sets consecutiveFailures to 0, isHealthy to true and error to
\* null, and leaves the schedule alone: a running monitor is still running
\* on its one interval.
C16_SuccessResets ==
    [][(checkHealthy
            /\ status.consecutiveFailures < HEALTH_CHECK_FAILURE_THRESHOLD) =>
        /\ status'.consecutiveFailures = 0
        /\ status'.isHealthy
        /\ status'.error = None
        /\ hcIsRunning' = hcIsRunning
        /\ intervalId' = intervalId
        /\ liveIntervals' = liveIntervals
        /\ hcIsRunning => (intervalId' # None /\ liveIntervals' = 1)]_vars

\* C16 witness: a healthy response has just been applied to the running
\* monitor after two consecutive failures.
C16_Witness ==
    /\ lastOp = Some([op |-> "success", wasRunning |-> TRUE, failures |-> 2])
    /\ status.consecutiveFailures = 0 /\ status.isHealthy /\ status.error = None
    /\ hcIsRunning /\ liveIntervals = 1

\* C17: isHealthy is false exactly when consecutiveFailures is at least the
\* threshold; it becomes false only in a step that brings the count from below
\* the threshold to it, and true again only in a step that resets the count
\* to 0 (start() with no base URL counts its immediate check on top of the
\* reset).
C17_UnhealthyIffThreshold ==
    /\ [](~status.isHealthy <=>
            status.consecutiveFailures >= HEALTH_CHECK_FAILURE_THRESHOLD)
    /\ [][/\ (status.isHealthy /\ ~status'.isHealthy) =>
                /\ status.consecutiveFailures < HEALTH_CHECK_FAILURE_THRESHOLD
                /\ status'.consecutiveFailures = HEALTH_CHECK_FAILURE_THRESHOLD
          /\ (~status.isHealthy /\ status'.isHealthy) =>
                \/ status'.consecutiveFailures = 0
                \/ /\ monitorStart /\ getBaseUrl = None
                   /\ status'.consecutiveFailures = 1]_vars

\* C17 witness: a healthy response has been applied to the monitor that had
\* declared the critical failure, and it is healthy again with a count of 0.
C17_Witness ==
    /\ lastOp = Some([op |-> "success", wasRunning |-> FALSE, failures |-> 3])
    /\ status.isHealthy /\ status.consecutiveFailures = 0

\* What start() and stop() of the monitor may change.
mvars == <<hcIsRunning, intervalId, status, liveIntervals, inFlight, dialogs,
           shown, notified>>

\* C18: start() on a running monitor creates no interval, begins no check and
\* leaves the status record, and everything else of the monitor, unchanged.
C18_StartWhileRunningIsNoOp ==
    [][(monitorStart /\ hcIsRunning) => UNCHANGED mvars]_vars

\* C18 witness: start() has been called on the running monitor, which still
\* has its one interval.
C18_Witness ==
    /\ lastOp # None /\ lastOp[1].op = "start" /\ lastOp[1].wasRunning
    /\ hcIsRunning /\ liveIntervals = 1 /\ inFlight = 1

\* C19: start() on a stopped monitor sets isRunning and isHealthy, resets
\* consecutiveFailures to 0, begins one check in the call itself (a request
\* in flight, or with no base URL one failure counted on the reset), and
\* creates one interval; every tick of the interval begins one check, only a
\* running monitor has an interval, and stop() leaves none.
C19_StartChecksAtOnce ==
    /\ [][/\ (monitorStart /\ ~hcIsRunning) =>
                /\ hcIsRunning' /\ status'.isHealthy
                /\ intervalId' # None /\ liveIntervals' = 1
                /\ IF getBaseUrl = None
                   THEN /\ status'.consecutiveFailures = 1
                        /\ inFlight' = inFlight
                   ELSE /\ status'.consecutiveFailures = 0
                        /\ inFlight' = inFlight + 1
          /\ intervalTick =>
                IF getBaseUrl = None
                THEN /\ status'.consecutiveFailures = status.consecutiveFailures + 1
                     /\ inFlight' = inFlight
                ELSE /\ status' = status
                     /\ inFlight' = inFlight + 1
          /\ monitorStop => liveIntervals' = 0]_vars
    /\ [](liveIntervals > 0 => hcIsRunning)

\* C19 witness: start() has been called on the monitor stopped by the critical
\* failure; it runs again, reset, with its immediate check in flight.
C19_Witness ==
    /\ lastOp = Some([op |-> "start", wasRunning |-> FALSE, failures |-> 3])
    /\ hcIsRunning /\ status.isHealthy /\ status.consecutiveFailures = 0
    /\ inFlight = 1 /\ liveIntervals = 1

\* C20: stop() clears the interval and isRunning and leaves the status record
\* as it was; on a monitor that is not running it changes nothing.
C20_StopKeepsStatus ==
    [][monitorStop =>
        /\ status' = status
        /\ ~hcIsRunning' /\ intervalId' = None /\ liveIntervals' = 0
        /\ ~hcIsRunning => UNCHANGED mvars]_vars

\* C20 witness: stop() has been called on the running monitor after two
\* failures, and the status record still shows them.
C20_Witness ==
    /\ lastOp = Some([op |-> "stop", wasRunning |-> TRUE, failures |-> 2])
    /\ ~hcIsRunning /\ intervalId = None /\ liveIntervals = 0
    /\ status.consecutiveFailures = 2 /\ status.lastCheck # None
    /\ status.error # None

\* C21 (as claimed): while the monitor is stopped and until start() is called
\* again, the status record is not modified, nothing is sent to the renderer
\* and no critical dialog is shown.  Stated for every step but the
\* acknowledgement of a dialog.
C21_NothingAfterStop ==
    [][(~hcIsRunning /\ ~monitorStart /\ ~dialogAcknowledged) =>
            /\ status' = status
            /\ notified' = notified
            /\ dialogs' = dialogs]_vars

\* A step that runs performCheck(): a tick, or a start() of a stopped monitor.
checks == intervalTick \/ (monitorStart /\ ~hcIsRunning)

\* C22: a check that finds no base URL is counted as one failure with the
\* reason 'Backend URL not available', stamped with the time of the check,
\* and issues no request.
C22_NoUrlIsOneFailure ==
    [][(checks /\ getBaseUrl = None) =>
          /\ inFlight' = inFlight
          /\ status'.error = Some(ErrNoUrl)
          /\ status'.lastCheck = Some(now)
          /\ status'.consecutiveFailures =
                 (IF monitorStart THEN 0 ELSE status.consecutiveFailures) + 1]_vars

\* A tick without a base URL has counted the second failure in a row, nothing
\* in flight.
C22_Witness ==
    /\ getBaseUrl = None
    /\ lastOp = Some([op |-> "failure", wasRunning |-> TRUE, failures |-> 1])
    /\ status.error = Some(ErrNoUrl)
    /\ status.consecutiveFailures = 2
    /\ inFlight = 0

\* C23: a check succeeds only on a 200 response whose body says 'healthy';
\* every other outcome of a check (another body, a thrown request, no base
\* URL) adds exactly one to the failure counter, and only a success or a
\* start() ever lowers the counter.
C23_OnlyHealthyIsSuccess ==
    [][/\ (checkUnhealthy \/ checkThrows \/ (intervalTick /\ getBaseUrl = None)) =>
           /\ status'.consecutiveFailures = status.consecutiveFailures + 1
           /\ status'.error \in {Some(ErrUnhealthy), Some(ErrRequest), Some(ErrNoUrl)}
       /\ (checkUnhealthy \/ checkThrows) => inFlight' = inFlight - 1
       /\ (checkUnhealthy /\ ~checkThrows) => status'.error = Some(ErrUnhealthy)
       /\ status'.consecutiveFailures < status.consecutiveFailures =>
           checkHealthy \/ monitorStart
       /\ (status'.error = None /\ status.error # None) => checkHealthy]_vars

\* A 200 response with another body has just been counted as the second
\* failure.
C23_Witness ==
    /\ lastOp = Some([op |-> "failure", wasRunning |-> TRUE, failures |-> 1])
    /\ status.error = Some(ErrUnhealthy)
    /\ status.consecutiveFailures = 2
    /\ status.isHealthy

\* A step that applies the outcome of a check.
outcome ==
    checkHealthy \/ checkUnhealthy \/ checkThrows \/ (checks /\ getBaseUrl = None)

\* C24 (as claimed): every applied check outcome pushes a health:status
\* notification carrying the status as that outcome left it.
C24_EveryOutcomeNotifies ==
    [][outcome => notified' = Some(status')]_vars

\* C24 (amended): while the monitor has a window that is not destroyed, every
\* applied outcome pushes the status as that outcome left it and the
\* acknowledgement of the critical dialog pushes the status once more; without
\* such a window nothing is pushed; and nothing else pushes a notification, so
\* the additional one never precedes the acknowledgement.
C24_OutcomeNotifiesWindow ==
    [][/\ (outcome /\ mainWindow = "open") => notified' = Some(status')
       /\ (dialogAcknowledged /\ mainWindow = "open") =>
           notified' = Some(status) /\ status' = status
       /\ mainWindow # "open" => notified' = notified
       /\ notified' # notified => outcome \/ dialogAcknowledged]_vars

\* The critical dialog of the third failure has been acknowledged and the
\* renderer holds the unhealthy status.
C24_Witness ==
    /\ mainWindow = "open"
    /\ shown = 1
    /\ dialogs = 0
    /\ ~status.isHealthy
    /\ status.consecutiveFailures = HEALTH_CHECK_FAILURE_THRESHOLD
    /\ notified = Some(status)

\* C25 (as claimed): for each start() of the monitor the critical dialog is
\* shown at most once.
C25_OneDialogPerStart == shown <= 1

\* C27 (as claimed): at most one health check is in flight at any time.
C27_OneCheckInFlight == inFlight <= 1

\* C28 (as claimed): when the tracked process exits while a stop() is pending,
\* that stop() resolves with isRunning false, no port and no process, and the
\* resolved stop() sends no termination signal to any process afterwards.
C28_ExitSatisfiesStop ==
    [][/\ \A s \in DOMAIN stops :
              (stops[s].pending /\ ~stops'[s].pending) =>
                  ~isRunning' /\ port' = None /\ process' = None
       /\ \A s \in DOMAIN stops :
              (forceKillTimer(s) /\ ~stops[s].pending) => procs' = procs]_vars

\* C29 (as claimed): when start() settles with a failed status, getStatus()
\* reports isRunning = false and no port and getBaseUrl() returns null,
\* whatever the failure was.
C29_FailedStateAgrees ==
    [][(settles /\ ~promise'[1].value.isRunning) =>
            /\ ~getStatus'.isRunning
            /\ getStatus'.port = None
            /\ getBaseUrl' = None]_vars

\* The spawned processes that are alive.
aliveProcs == {p \in DOMAIN procs : procs[p].state = "alive"}

\* C30 (as claimed): at most one spawned process is alive, and an alive
\* spawned process is the one the supervisor tracks.
C30_OneTrackedProcess ==
    /\ Cardinality(aliveProcs) <= 1
    /\ \A p \in aliveProcs : process = Some(p)

\* C26: initialize() starts the monitor only when backendManager.start() has
\* resolved with isRunning = true and no error, and once start() has resolved
\* with anything else the monitor is not started, then or later.
C26_MonitorAfterBackendReady ==
    /\ [][monitorStart =>
              /\ promise # None /\ promise[1].settled
              /\ promise[1].value.isRunning
              /\ promise[1].value.error = NoError]_vars
    /\ [](hcIsRunning \/ liveIntervals > 0 \/ inFlight > 0 =>
              /\ promise # None /\ promise[1].settled
              /\ promise[1].value.isRunning
              /\ promise[1].value.error = NoError)
    /\ []((promise # None /\ promise[1].settled /\ ~promise[1].value.isRunning) =>
              ~hcIsRunning /\ (lastOp # None => lastOp[1].op = "stop"))

\* The monitor has been started, with the window set, after start() resolved
\* Ready.
C26_Witness ==
    /\ promise # None /\ promise[1].settled /\ promise[1].value.isRunning
    /\ lastOp = Some([op |-> "start", wasRunning |-> FALSE, failures |-> 0])
    /\ hcIsRunning
    /\ mainWindow = "open"

\* start() has resolved with a failure, the application has shut down and the
\* monitor was never started.
C26_WitnessFailed ==
    /\ promise # None /\ promise[1].settled /\ ~promise[1].value.isRunning
    /\ lastStop # "none"
    /\ ~hcIsRunning

\* C31 (as claimed): a stdout, 'error' or 'close' event of a process that is
\* not the tracked one leaves isRunning, port and the tracked process as they
\* were.
C31_OrphanEventsChangeNothing ==
    [][\A p \in DOMAIN procs :
          (/\ process # Some(p)
           /\ \/ \E chunk \in Chunks : onStdoutData(p, chunk)
              \/ onError(p)
              \/ onClose(p))
              => (isRunning' = isRunning /\ port' = port /\ process' = process)]_vars

\* C32 (as claimed): the force-kill timer of a stop() signals no process but
\* the one that stop() was called on, and a stop() that has resolved signals
\* nothing.
C32_ForceKillOnlyStopped ==
    [][\A s \in DOMAIN stops :
          forceKillTimer(s) =>
              \A p \in DOMAIN procs :
                  procs'[p] # procs[p] =>
                      (stops[s].target = Some(p) /\ stops[s].pending)]_vars

\* C33 (as claimed, for the timer of stop()): the force-kill timer of a stop()
\* is armed only while that stop() is pending; once the stop() has resolved
\* no timer of it is left.
C33_NoTimerOutlivesStop ==
    \A s \in DOMAIN stops : stops[s].armed => stops[s].pending

\* C34 (as claimed): the cached startup promise is non-null exactly while a
\* start sequence is in flight.  Stated for the histories in which no spawn()
\* has thrown.
C34_CacheOnlyInFlight ==
    startupPromise # Some(Settled(failed(ErrSpawn))) =>
        ((startupPromise # None) <=> (pc # "idle"))

\* C35 (as claimed): when start() resolves with isRunning = true, getStatus()
\* reports isRunning = true with the port and the pid of the resolved status.
C35_ReadyStateAgrees ==
    [][(settles /\ promise'[1].value.isRunning) =>
            /\ getStatus'.isRunning
            /\ getStatus'.port = promise'[1].value.port
            /\ getStatus'.pid = promise'[1].value.pid]_vars

\* C36: between handlers the interval timer is scheduled exactly when
\* isActive() is true, at most one interval is live, an active monitor is
\* healthy with fewer failures than the threshold, and a failure below the
\* threshold never stops the monitor.
C36_TimerIffActive ==
    /\ [](/\ (liveIntervals > 0) <=> isActive(Monitor)
          /\ (intervalId # None) <=> isActive(Monitor)
          /\ liveIntervals <= 1
          /\ isActive(Monitor) =>
                 /\ status.isHealthy
                 /\ status.consecutiveFailures < HEALTH_CHECK_FAILURE_THRESHOLD)
    /\ [][(hcIsRunning /\ ~hcIsRunning' /\ ~monitorStop) =>
              /\ outcome
              /\ ~status'.isHealthy
              /\ status'.consecutiveFailures = HEALTH_CHECK_FAILURE_THRESHOLD]_vars

\* The monitor is polling with two failures counted: active, healthy, below
\* the threshold.
C36_Witness ==
    /\ isActive(Monitor)
    /\ liveIntervals = 1
    /\ status.consecutiveFailures = HEALTH_CHECK_FAILURE_THRESHOLD - 1
    /\ status.isHealthy
    /\ shown = 0

\* C37 (as claimed): a start() has settled by BACKEND_STARTUP_TIMEOUT_MS plus
\* one probe timeout after the call, whenever the port is announced.
C37_StartWithinOneTimeout ==
    timed.at = "settled" =>
        timed.t <= BACKEND_STARTUP_TIMEOUT_MS + PROBE_TIMEOUT_MS

\* C38: under FairSpec every start sequence in flight settles: a pending
\* promise of _startInternal is eventually settled, whatever the processes do
\* and whenever stop() is called.
C38_StartSettles ==
    (promise # None /\ ~promise[1].settled) ~> (promise # None /\ promise[1].settled)

\* A start() that was stopped while it waited for the port, its process
\* closed, has settled with the startup timeout.
C38_Witness ==
    /\ pc = "idle"
    /\ promise # None /\ promise[1].settled
    /\ lastEvent = ErrPortTimeout
    /\ lastStop = "pending"
    /\ Len(procs) = 1 /\ procs[1].state = "closed"

\* C39: a running monitor whose backend has no port (the close listener has
\* cleared it) and no critical dialog pending beyond the bound reaches, under
\* fair timer firing, the critical state, unless stop() is called or the port
\* comes back first; each tick taken without a port counts one failure and
\* issues no request; and the monitor stops by itself only in the step that
\* counts the failure number HEALTH_CHECK_FAILURE_THRESHOLD since the last
\* success or start, leaving isHealthy false and no interval.
C39_CrashLeadsToCritical ==
    /\ (hcIsRunning /\ getBaseUrl = None /\ dialogs < MaxDialogs)
           ~> \/ ~hcIsRunning /\ ~status.isHealthy /\ liveIntervals = 0
              \/ getBaseUrl # None
              \/ ~hcIsRunning /\ lastOp # None /\ lastOp[1].op = "stop"
    /\ [][/\ (intervalTick /\ getBaseUrl = None) =>
              /\ inFlight' = inFlight
              /\ status'.consecutiveFailures = status.consecutiveFailures + 1
          /\ (hcIsRunning /\ ~hcIsRunning' /\ ~monitorStop) =>
              /\ status.consecutiveFailures = HEALTH_CHECK_FAILURE_THRESHOLD - 1
              /\ status'.consecutiveFailures = HEALTH_CHECK_FAILURE_THRESHOLD
              /\ ~status'.isHealthy
              /\ liveIntervals' = 0]_vars

\* After a success, three ticks without a port have brought the monitor to
\* the critical state with no request issued.
C39_Witness ==
    /\ getBaseUrl = None
    /\ ~hcIsRunning /\ liveIntervals = 0
    /\ ~status.isHealthy
    /\ status.consecutiveFailures = HEALTH_CHECK_FAILURE_THRESHOLD
    /\ status.error = Some(ErrNoUrl)
    /\ lastOp = Some([op |-> "failure", wasRunning |-> TRUE,
                      failures |-> HEALTH_CHECK_FAILURE_THRESHOLD - 1])
    /\ inFlight = 0

====
